---- MODULE Spec2Model ----
(***************************************************************************)
(* Model of the data_structures crate: the circular-buffer Queue of        *)
(* src/src/queues.rs and the singly linked LinkedList / Stack of           *)
(* src/src/linkedlist.rs.                                                  *)
(*                                                                         *)
(* A behaviour follows ONE instance: a constructor call creates it (obj    *)
(* records which type it is) and the public methods of that type are then  *)
(* called in any order with any arguments.  Instances share no state, so   *)
(* the instances of different types are explored side by side rather than  *)
(* as a product.                                                           *)
(*                                                                         *)
(* A Vec<T> is modelled by its contents (a sequence, Len = Vec::len()) and *)
(* its capacity (Vec::capacity()).  Rust indices are 0-based, sequence     *)
(* indices 1-based: slot i of the Vec is list[i + 1].                       *)
(* Option<T> is a tuple: None is <<>> and Some(v) is <<v>>.                *)
(* A LinkedList<T>(Option<(T, Box<LinkedList<T>>)>) is a nested tuple:     *)
(* LinkedList(None) is <<>>, LinkedList(Some((d, child))) is <<d, child>>. *)
(***************************************************************************)
EXTENDS Integers, Sequences, FiniteSets, TLC

\* ---------------------------------------------------------------- bounds
\* element values offered to enqueue / push / append / insert: 1..MaxData
MaxData == 2
\* at most MaxEnq successful enqueue calls per behaviour
MaxEnq == 5
\* with_capacity is called with a capacity in 0..MaxCap0
MaxCap0 == 4
\* a LinkedList holds at most MaxList nodes
MaxList == 4
\* insert is called with an index in 0..MaxIdx
MaxIdx == 5
\* the keys offered to PriorityQueue::insert: 1..MaxKey
MaxKey == 2
\* at most MaxIns PriorityQueue::insert calls per behaviour
MaxIns == 4

Data == 1..MaxData

\* ------------------------------------------------------ program constants
DEFAULT_INIT_QUEUE_CAPACITY == 32
\* the all-zero bit pattern std::mem::zeroed() produces for an integer T
Zeroed == 0

None == <<>>
Some(v) == <<v>>

VARIABLES
    obj,        \* which instance exists: "none", "Queue", "LinkedList"
                \* or "PriorityQueue"
    queue,      \* the Queue: [list, cap, head, tail, panicked]
    ll,         \* the LinkedList, a nested tuple
    last,       \* the last call and what it returned: [op, arg, n, ret]
    cap0,       \* history: capacity the Queue was constructed with
    enq,        \* history: the values of the enqueue calls that returned
    deq,        \* history: the values dequeue returned as Some
    wrapped,    \* history: tail went back to 0 since the last allocation
    wraps,      \* history: how many times tail went back to 0
    growths,    \* history: resizes run by enqueue, by the state they ran in
    pushed,     \* history: values pushed and not yet popped
    stackOnly,  \* history: only push and pop were called on the list
    src,        \* history: the sequence the list was built from
    out,        \* history: the values pop and next returned since then
    drainOnly,  \* history: only pop, next and peek were called since then
    elemType,   \* the T of PriorityQueue<T>: "total" or "partial" order
    nextId,     \* history: number of PriorityQueue::insert calls
    held,       \* history: the elements inserted and not yet returned
    appended,   \* history: the values appended, in call order
    buildOnly,  \* history: only push and append were called on a new list
    maxStored   \* history: the most elements the Queue has held

vars == <<obj, queue, ll, last, cap0, enq, deq, wrapped, wraps, growths,
          pushed, stackOnly, src, out, drainOnly, elemType, nextId, held,
          appended, buildOnly, maxStored>>

\* ------------------------------------------------------------ Vec helpers
Max2(a, b) == IF a >= b THEN a ELSE b

\* Vec::insert(len, x) on a full Vec reallocates: amortized doubling, and
\* at least 4 slots for small elements
VecGrow(cap) == Max2(Max2(2 * cap, cap + 1), 4)

\* list.insert(list.len(), data): append, growing the allocation when full
VecInsertAtLen(list, cap, data) ==
    [list |-> Append(list, data),
     cap  |-> IF Len(list) = cap THEN VecGrow(cap) ELSE cap]

\* ------------------------------------------------------------------ Queue
with_capacity(capacity) ==
    [list |-> <<>>, cap |-> capacity, head |-> 0, tail |-> 0,
     panicked |-> FALSE]

Queue_new == with_capacity(DEFAULT_INIT_QUEUE_CAPACITY)

\* empty() asking the Vec instead of the indices
empty_vec(q) == Len(q.list) = 0

empty(q) == q.head = q.tail

\* len without the wrapped case
len_nowrap(q) == q.tail - q.head

len(q) ==
    IF q.head > q.tail
    THEN q.cap - q.head + q.tail
    ELSE q.tail - q.head

\* has_space, incr_head and incr_tail take a remainder by the capacity and
\* panic when it is zero
ModPanics(q) == q.cap = 0

\* has_space without the sentinel slot
has_space_nosentinel(q) == q.head # q.tail % q.cap

\* has_space reporting a full buffer one element early
has_space_early(q) == q.head # (q.tail + 2) % q.cap

has_space(q) == q.head # (q.tail + 1) % q.cap

\* incr_head without the remainder
incr_head_nomod(q) == [q EXCEPT !.head = q.head + 1]

incr_head(q) == [q EXCEPT !.head = (q.head + 1) % q.cap]

\* incr_tail without the remainder
incr_tail_nomod(q) == [q EXCEPT !.tail = q.tail + 1]

incr_tail(q) == [q EXCEPT !.tail = (q.tail + 1) % q.cap]

\* Vec::drain(a..b) panics unless a <= b <= len
DrainPanics(list, a, b) == a > b \/ b > Len(list)

\* the drain ranges of resize are in bounds
ResizePanics(q) ==
    IF q.head <= q.tail
    THEN DrainPanics(q.list, q.head, q.tail)
    ELSE \/ DrainPanics(q.list, q.head, Len(q.list))
         \/ DrainPanics(SubSeq(q.list, 1, q.head), 0, q.tail)

\* resize adding one slot instead of doubling
resize_plus_one(q) ==
    LET new_list ==
            IF q.head <= q.tail
            THEN SubSeq(q.list, q.head + 1, q.tail)
            ELSE SubSeq(q.list, q.head + 1, Len(q.list))
                    \o SubSeq(q.list, 1, q.tail)
    IN  IF ResizePanics(q)
        THEN [q EXCEPT !.panicked = TRUE]
        ELSE [list |-> new_list, cap |-> q.cap + 1, head |-> 0,
              tail |-> Len(new_list), panicked |-> FALSE]

\* resize copying the two halves of a wrapped queue in buffer order
resize_bufferorder(q) ==
    LET new_list ==
            IF q.head <= q.tail
            THEN SubSeq(q.list, q.head + 1, q.tail)
            ELSE SubSeq(q.list, 1, q.tail)
                    \o SubSeq(q.list, q.head + 1, Len(q.list))
    IN  IF ResizePanics(q)
        THEN [q EXCEPT !.panicked = TRUE]
        ELSE [list |-> new_list, cap |-> q.cap * 2, head |-> 0,
              tail |-> Len(new_list), panicked |-> FALSE]

\* resize allocating four times the capacity
resize_quadruple(q) ==
    LET new_list ==
            IF q.head <= q.tail
            THEN SubSeq(q.list, q.head + 1, q.tail)
            ELSE SubSeq(q.list, q.head + 1, Len(q.list))
                    \o SubSeq(q.list, 1, q.tail)
    IN  IF ResizePanics(q)
        THEN [q EXCEPT !.panicked = TRUE]
        ELSE [list |-> new_list, cap |-> q.cap * 4, head |-> 0,
              tail |-> Len(new_list), panicked |-> FALSE]

resize(q) ==
    LET new_cap == q.cap * 2
        new_list ==
            IF q.head <= q.tail
            THEN SubSeq(q.list, q.head + 1, q.tail)
            ELSE LET first == SubSeq(q.list, q.head + 1, Len(q.list))
                     rest  == SubSeq(q.list, 1, q.head)
                 IN  first \o SubSeq(rest, 1, q.tail)
    IN  IF ResizePanics(q)
        THEN [q EXCEPT !.panicked = TRUE]
        ELSE [list |-> new_list, cap |-> new_cap, head |-> 0,
              tail |-> Len(new_list), panicked |-> FALSE]

\* the slot write as list.insert(self.tail, data): always shifts and grows
store_insert_at_tail(q, data) ==
    LET k == IF q.tail > Len(q.list) THEN Len(q.list) ELSE q.tail
    IN  [q EXCEPT !.list = SubSeq(q.list, 1, k) \o <<data>>
                              \o SubSeq(q.list, k + 1, Len(q.list)),
                  !.cap = IF Len(q.list) = q.cap THEN VecGrow(q.cap)
                          ELSE q.cap]

\* the slot write always appending to the Vec
store_always_push(q, data) ==
    LET v == VecInsertAtLen(q.list, q.cap, data)
    IN  [q EXCEPT !.list = v.list, !.cap = v.cap]

\* the slot write of enqueue: overwrite slot tail or append to the Vec
store(q, data) ==
    IF Len(q.list) > q.tail
    THEN [q EXCEPT !.list[q.tail + 1] = data]
    ELSE LET v == VecInsertAtLen(q.list, q.cap, data)
         IN  [q EXCEPT !.list = v.list, !.cap = v.cap]

enqueue(q, data) ==
    IF ModPanics(q)
    THEN [q EXCEPT !.panicked = TRUE]
    ELSE LET q1 == IF ~has_space(q) THEN resize(q) ELSE q
         IN  IF q1.panicked
             THEN q1
             ELSE LET q2 == store(q1, data)
                  IN  IF ModPanics(q2)
                      THEN [q2 EXCEPT !.panicked = TRUE]
                      ELSE incr_tail(q2)

\* get_unchecked_mut(head) beyond the Vec's length is undefined behaviour
DequeueUB(q) == ~empty(q) /\ q.head >= Len(q.list)

\* dequeue copying the value out and leaving it in the slot
dequeue_noclear(q) ==
    IF empty(q)
    THEN [ret |-> None, q |-> q]
    ELSE IF ModPanics(q)
         THEN [ret |-> None, q |-> [q EXCEPT !.panicked = TRUE]]
         ELSE [ret |-> Some(q.list[q.head + 1]), q |-> incr_head(q)]

\* dequeue on a queue where the read is defined: [ret, q]
dequeue(q) ==
    IF empty(q)
    THEN [ret |-> None, q |-> q]
    ELSE LET it == q.list[q.head + 1]
             q1 == [q EXCEPT !.list[q.head + 1] = Zeroed]
         IN  IF ModPanics(q1)
             THEN [ret |-> None, q |-> [q1 EXCEPT !.panicked = TRUE]]
             ELSE [ret |-> Some(it), q |-> incr_head(q1)]

\* logical contents: the slots from head up to tail in ring order
RECURSIVE Ring(_, _, _)
Ring(q, i, n) ==
    IF n <= 0 THEN <<>>
    ELSE <<q.list[i + 1]>> \o Ring(q, (i + 1) % q.cap, n - 1)

Contents(q) == Ring(q, q.head, len(q))

\* ------------------------------------------------------------- LinkedList
LinkedList_new == None

\* append that does not walk to the end: the value goes behind the head
append_behind_head(l, data) ==
    IF l = None
    THEN <<data, LinkedList_new>>
    ELSE <<l[1], <<data, l[2]>>>>

RECURSIVE append(_, _)
append(l, data) ==
    IF l = None
    THEN <<data, LinkedList_new>>
    ELSE <<l[1], append(l[2], data)>>

\* push adding at the end
push_back(l, data) == append(l, data)

push(l, data) ==
    LET new_ll == l
    IN  <<data, new_ll>>

\* pop: [ret, l]
pop(l) ==
    IF l = None
    THEN [ret |-> None, l |-> l]
    ELSE [ret |-> Some(l[1]), l |-> l[2]]

insert_here(l, data) ==
    LET new == append(LinkedList_new, data)
    IN  <<new[1], l>>

\* insert that does nothing when the index is beyond the end
RECURSIVE insert_noclamp(_, _, _)
insert_noclamp(l, data, n) ==
    IF l = None
    THEN IF n > 0 THEN l ELSE <<data, LinkedList_new>>
    ELSE IF n > 0
         THEN <<l[1], insert_noclamp(l[2], data, n - 1)>>
         ELSE <<data, l>>

RECURSIVE insert(_, _, _)
insert(l, data, n) ==
    IF l = None
    THEN append(l, data)
    ELSE IF n > 0
         THEN <<l[1], insert(l[2], data, n - 1)>>
         ELSE insert_here(l, data)

\* peek answering with the last value
RECURSIVE peek_last(_)
peek_last(l) ==
    IF l = None THEN None
    ELSE IF l[2] = None THEN Some(l[1])
    ELSE peek_last(l[2])

\* peek: the head value or None
peek(l) == IF l = None THEN None ELSE Some(l[1])

\* from_helper putting each item in front
RECURSIVE from_helper_push(_, _)
from_helper_push(l, iter) ==
    IF iter = <<>>
    THEN l
    ELSE from_helper_push(push(l, Head(iter)), Tail(iter))

\* from_helper: append the next item, then go on in the child
RECURSIVE from_helper(_, _)
from_helper(l, iter) ==
    IF iter = <<>>
    THEN l
    ELSE LET l1 == append(l, Head(iter))
         IN  <<l1[1], from_helper(l1[2], Tail(iter))>>

from_iter(list) == from_helper(LinkedList_new, list)

\* Iterator::next: [ret, l]
next(l) ==
    IF l = None
    THEN [ret |-> None, l |-> l]
    ELSE LET data == l[1]
             child == l[2]
         IN  [ret |-> Some(data), l |-> child]

\* ---------------------------------------------------------- PriorityQueue
\* An element is [key, nan, id]: it is ordered by its key, a nan key (as
\* f64::NAN) is comparable to nothing, and id tells elements of equal key
\* apart.  data >= it of PartialOrd:
ge(data, it) == ~data.nan /\ ~it.nan /\ data.key >= it.key

PriorityQueue_new == LinkedList_new

\* insert_inorder comparing with <=
RECURSIVE insert_inorder_desc(_, _)
insert_inorder_desc(l, data) ==
    IF l = None
    THEN append(l, data)
    ELSE IF ge(l[1], data)
         THEN <<l[1], insert_inorder_desc(l[2], data)>>
         ELSE insert_here(l, data)

\* insert_inorder comparing with >
RECURSIVE insert_inorder_strict(_, _)
insert_inorder_strict(l, data) ==
    IF l = None
    THEN append(l, data)
    ELSE IF ge(data, l[1]) /\ ~ge(l[1], data)
         THEN <<l[1], insert_inorder_strict(l[2], data)>>
         ELSE insert_here(l, data)

\* insert_inorder descending while data < it is false
RECURSIVE insert_inorder_notless(_, _)
insert_inorder_notless(l, data) ==
    IF l = None
    THEN append(l, data)
    ELSE IF ~(ge(l[1], data) /\ ~ge(data, l[1]))
         THEN <<l[1], insert_inorder_notless(l[2], data)>>
         ELSE insert_here(l, data)

\* insert_inorder that stops one node late
RECURSIVE insert_inorder_late(_, _)
insert_inorder_late(l, data) ==
    IF l = None
    THEN append(l, data)
    ELSE IF ge(data, l[1]) \/ l[2] # None
         THEN <<l[1], insert_inorder_late(l[2], data)>>
         ELSE insert_here(l, data)

RECURSIVE insert_inorder(_, _)
insert_inorder(l, data) ==
    IF l = None
    THEN append(l, data)
    ELSE LET it == l[1]
             child == l[2]
         IN  IF ge(data, it)
             THEN <<it, insert_inorder(child, data)>>
             ELSE insert_here(l, data)

\* the elements of a list from the head on
RECURSIVE Elems(_)
Elems(l) == IF l = None THEN <<>> ELSE <<l[1]>> \o Elems(l[2])

\* ------------------------------------------------------------------- Init
NoQueue == [list |-> <<>>, cap |-> 0, head |-> 0, tail |-> 0,
            panicked |-> FALSE]

Call(op, arg, n, ret) == [op |-> op, arg |-> arg, n |-> n, ret |-> ret]

Init ==
    /\ obj = "none"
    /\ queue = NoQueue
    /\ ll = LinkedList_new
    /\ last = Call("none", 0, 0, None)
    /\ cap0 = 0
    /\ enq = <<>>
    /\ deq = <<>>
    /\ wrapped = FALSE
    /\ wraps = 0
    /\ growths = [linear |-> 0, wrapped |-> 0]
    /\ pushed = <<>>
    /\ stackOnly = TRUE
    /\ src = <<>>
    /\ out = <<>>
    /\ drainOnly = TRUE
    /\ elemType = "none"
    /\ nextId = 0
    /\ held = {}
    /\ appended = <<>>
    /\ buildOnly = TRUE
    /\ maxStored = 0

QueueFrame ==
    UNCHANGED <<ll, pushed, stackOnly, src, out, drainOnly, elemType,
                nextId, held, appended, buildOnly>>
ListFrame ==
    UNCHANGED <<queue, cap0, enq, deq, wrapped, wraps, growths, elemType,
                nextId, held, maxStored>>
PriorityQueueFrame ==
    UNCHANGED <<queue, cap0, enq, deq, wrapped, wraps, growths, pushed,
                stackOnly, src, out, drainOnly, appended, buildOnly,
                maxStored>>

\* ---------------------------------------------------------- Queue actions
QueueNew ==
    /\ obj = "none"
    /\ obj' = "Queue"
    /\ queue' = Queue_new
    /\ cap0' = Queue_new.cap
    /\ last' = Call("new", 0, 0, None)
    /\ UNCHANGED <<enq, deq, wrapped, wraps, growths, maxStored>>
    /\ QueueFrame

QueueWithCapacity(capacity) ==
    /\ obj = "none"
    /\ obj' = "Queue"
    /\ queue' = with_capacity(capacity)
    /\ cap0' = capacity
    /\ last' = Call("with_capacity", capacity, 0, None)
    /\ UNCHANGED <<enq, deq, wrapped, wraps, growths, maxStored>>
    /\ QueueFrame

Live == obj = "Queue" /\ ~queue.panicked

Enqueue(data) ==
    /\ Live
    /\ Len(enq) < MaxEnq
    /\ LET q == enqueue(queue, data)
           resized == ~ModPanics(queue) /\ ~has_space(queue)
       IN  /\ queue' = q
           /\ last' = Call("enqueue", data, 0, None)
           /\ IF q.panicked
              THEN UNCHANGED <<enq, wrapped, wraps, growths, maxStored>>
              ELSE /\ enq' = Append(enq, data)
                   /\ maxStored' = Max2(maxStored, Len(enq) + 1 - Len(deq))
                   /\ wrapped' = IF q.cap # queue.cap THEN FALSE
                                 ELSE IF q.tail = 0 THEN TRUE
                                 ELSE wrapped
                   /\ wraps' = IF q.tail = 0 THEN wraps + 1 ELSE wraps
                   /\ growths' =
                        IF ~resized THEN growths
                        ELSE IF queue.head <= queue.tail
                        THEN [growths EXCEPT !.linear = @ + 1]
                        ELSE [growths EXCEPT !.wrapped = @ + 1]
    /\ UNCHANGED <<obj, cap0, deq>>
    /\ QueueFrame

Dequeue ==
    /\ Live
    /\ IF DequeueUB(queue)
       THEN \* undefined behaviour: any value comes back, or the call dies
            \E v \in Data \cup {Zeroed} : \E dies \in BOOLEAN :
                /\ queue' = IF dies THEN [queue EXCEPT !.panicked = TRUE]
                            ELSE incr_head(queue)
                /\ last' = Call("dequeue", 0, 0, IF dies THEN None ELSE Some(v))
                /\ deq' = IF dies THEN deq ELSE Append(deq, v)
       ELSE LET r == dequeue(queue)
            IN  /\ queue' = r.q
                /\ last' = Call("dequeue", 0, 0, r.ret)
                /\ deq' = IF r.ret = None THEN deq ELSE Append(deq, r.ret[1])
    /\ UNCHANGED <<obj, cap0, enq, wrapped, wraps, growths, maxStored>>
    /\ QueueFrame

QueueLen ==
    /\ Live
    /\ last' = Call("len", 0, 0, Some(len(queue)))
    /\ UNCHANGED <<obj, queue, cap0, enq, deq, wrapped, wraps, growths,
                   maxStored>>
    /\ QueueFrame

QueueEmpty ==
    /\ Live
    /\ last' = Call("empty", 0, 0, Some(IF empty(queue) THEN 1 ELSE 0))
    /\ UNCHANGED <<obj, queue, cap0, enq, deq, wrapped, wraps, growths,
                   maxStored>>
    /\ QueueFrame

\* ----------------------------------------------------- LinkedList actions
LinkedListNew ==
    /\ obj = "none"
    /\ obj' = "LinkedList"
    /\ ll' = LinkedList_new
    /\ last' = Call("new", 0, 0, None)
    /\ UNCHANGED <<pushed, stackOnly, src, out, drainOnly, appended,
                   buildOnly>>
    /\ ListFrame

\* the finite sequences from_iter is called with
Inputs == UNION {[1..n -> Data] : n \in 0..MaxList}

LinkedListFromIter ==
    /\ obj = "none"
    /\ obj' = "LinkedList"
    /\ \E list \in Inputs :
          /\ ll' = from_iter(list)
          /\ src' = list
          /\ stackOnly' = (list = <<>>)
          /\ buildOnly' = (list = <<>>)
    /\ last' = Call("from_iter", 0, 0, None)
    /\ UNCHANGED <<pushed, out, drainOnly, appended>>
    /\ ListFrame

IsList == obj = "LinkedList"

\* a call other than pop, next and peek ends the drain history
Mutated == src' = <<>> /\ out' = <<>> /\ drainOnly' = FALSE

\* pop and next add the value they return to the drain history
Drained(ret) ==
    /\ out' = IF drainOnly /\ ret # None THEN Append(out, ret[1]) ELSE out
    /\ appended' = <<>>
    /\ buildOnly' = FALSE
    /\ UNCHANGED <<src, drainOnly>>

Push(data) ==
    /\ IsList
    /\ Len(Elems(ll)) < MaxList
    /\ ll' = push(ll, data)
    /\ last' = Call("push", data, 0, None)
    /\ pushed' = <<data>> \o pushed
    /\ Mutated
    /\ UNCHANGED <<obj, stackOnly, appended, buildOnly>>
    /\ ListFrame

Pop ==
    /\ IsList
    /\ LET r == pop(ll)
       IN  /\ ll' = r.l
           /\ last' = Call("pop", 0, 0, r.ret)
           /\ Drained(r.ret)
    /\ pushed' = IF pushed = <<>> THEN pushed ELSE Tail(pushed)
    /\ UNCHANGED <<obj, stackOnly>>
    /\ ListFrame

IterNext ==
    /\ IsList
    /\ LET r == next(ll)
       IN  /\ ll' = r.l
           /\ last' = Call("next", 0, 0, r.ret)
           /\ Drained(r.ret)
    /\ pushed' = IF pushed = <<>> THEN pushed ELSE Tail(pushed)
    /\ stackOnly' = FALSE
    /\ UNCHANGED obj
    /\ ListFrame

Peek ==
    /\ IsList
    /\ last' = Call("peek", 0, 0, peek(ll))
    /\ UNCHANGED <<obj, ll, pushed, stackOnly, src, out, drainOnly, appended,
                   buildOnly>>
    /\ ListFrame

AppendCall(data) ==
    /\ IsList
    /\ Len(Elems(ll)) < MaxList
    /\ ll' = append(ll, data)
    /\ last' = Call("append", data, 0, None)
    /\ stackOnly' = FALSE
    /\ Mutated
    /\ appended' = IF buildOnly THEN Append(appended, data) ELSE appended
    /\ UNCHANGED <<obj, pushed, buildOnly>>
    /\ ListFrame

Insert(data, n) ==
    /\ IsList
    /\ Len(Elems(ll)) < MaxList
    /\ ll' = insert(ll, data, n)
    /\ last' = Call("insert", data, n, None)
    /\ stackOnly' = FALSE
    /\ Mutated
    /\ appended' = <<>>
    /\ buildOnly' = FALSE
    /\ UNCHANGED <<obj, pushed>>
    /\ ListFrame

\* -------------------------------------------------- PriorityQueue actions
PriorityQueueNew(type) ==
    /\ obj = "none"
    /\ obj' = "PriorityQueue"
    /\ elemType' = type
    /\ ll' = PriorityQueue_new
    /\ last' = Call("new", 0, 0, None)
    /\ UNCHANGED <<nextId, held>>
    /\ PriorityQueueFrame

IsPQ == obj = "PriorityQueue"

\* the values of type T, without the id
Values(type) ==
    {[key |-> k, nan |-> FALSE] : k \in 1..MaxKey}
        \cup (IF type = "partial" THEN {[key |-> 0, nan |-> TRUE]} ELSE {})

PQInsert(v) ==
    /\ IsPQ
    /\ v \in Values(elemType)
    /\ nextId < MaxIns
    /\ LET data == [key |-> v.key, nan |-> v.nan, id |-> nextId + 1]
       IN  /\ ll' = insert_inorder(ll, data)
           /\ last' = Call("insert", data, 0, None)
           /\ held' = held \cup {data}
    /\ nextId' = nextId + 1
    /\ UNCHANGED <<obj, elemType>>
    /\ PriorityQueueFrame

PQPop ==
    /\ IsPQ
    /\ LET r == pop(ll)
       IN  /\ ll' = r.l
           /\ last' = Call("pop", 0, 0, r.ret)
           /\ held' = IF r.ret = None THEN held ELSE held \ {r.ret[1]}
    /\ UNCHANGED <<obj, elemType, nextId>>
    /\ PriorityQueueFrame

PQNext ==
    /\ IsPQ
    /\ LET r == next(ll)
       IN  /\ ll' = r.l
           /\ last' = Call("next", 0, 0, r.ret)
           /\ held' = IF r.ret = None THEN held ELSE held \ {r.ret[1]}
    /\ UNCHANGED <<obj, elemType, nextId>>
    /\ PriorityQueueFrame

\* ------------------------------------------------------------------- Next
Next ==
    \/ QueueNew
    \/ \E capacity \in 0..MaxCap0 : QueueWithCapacity(capacity)
    \/ \E data \in Data : Enqueue(data)
    \/ Dequeue
    \/ QueueLen
    \/ QueueEmpty
    \/ LinkedListNew
    \/ LinkedListFromIter
    \/ \E data \in Data : Push(data)
    \/ Pop
    \/ IterNext
    \/ Peek
    \/ \E data \in Data : AppendCall(data)
    \/ \E data \in Data : \E n \in 0..MaxIdx : Insert(data, n)
    \/ \E type \in {"total", "partial"} : PriorityQueueNew(type)
    \/ \E v \in Values("partial") : PQInsert(v)
    \/ PQPop
    \/ PQNext

Spec == Init /\ [][Next]_vars

\* ----------------------------------------------------------------- claims
\* number of elements the queue holds according to the call history
Stored == Len(enq) - Len(deq)

TotalGrowths == growths.linear + growths.wrapped

\* C1: for a Queue created with a capacity of at least 2, the k-th dequeue
\* that returns a value returns the k-th enqueued value, whatever the
\* interleaving, the wrap-arounds and the growth events.
C1_Fifo ==
    (obj = "Queue" /\ cap0 >= 2) =>
        /\ Len(deq) <= Len(enq)
        /\ \A k \in 1..Len(deq) : deq[k] = enq[k]

\* a queue that has grown, whose indices are wrapped now, and that has
\* returned two different values
C1_Witness ==
    /\ obj = "Queue" /\ cap0 >= 2
    /\ TotalGrowths >= 1
    /\ queue.head > queue.tail
    /\ Len(deq) >= 2 /\ deq[1] # deq[2]
    /\ last.op = "dequeue" /\ last.ret # None

\* C2: len() is the number of enqueues minus the number of dequeues that
\* returned a value, in wrapped and non-wrapped states and across growth.
C2_Len ==
    obj = "Queue" =>
        /\ len(queue) = Stored
        /\ (last.op = "len" => last.ret = Some(Stored))

\* len() was called on a grown queue with wrapped indices
C2_Witness ==
    /\ obj = "Queue"
    /\ last.op = "len" /\ last.ret[1] >= 2
    /\ queue.head > queue.tail
    /\ TotalGrowths >= 1

\* C3: an enqueue that returns has grown the buffer iff the queue held
\* exactly capacity - 1 elements before the call, which is the case iff
\* (tail + 1) mod capacity = head; every other enqueue keeps the capacity.
C3_GrowIff ==
    [][(obj = "Queue" /\ Len(enq') = Len(enq) + 1) =>
          /\ (queue'.cap # queue.cap) <=> (Stored = queue.cap - 1)
          /\ (queue'.cap # queue.cap) <=>
                ((queue.tail + 1) % queue.cap = queue.head)
          /\ (Stored < queue.cap - 1) => (queue'.cap = queue.cap)]_vars

\* the indices went round the buffer twice and the capacity is still the
\* one the queue was constructed with
C3_Witness ==
    /\ obj = "Queue" /\ cap0 >= 2
    /\ wraps >= 2
    /\ queue.cap = cap0
    /\ last.op = "enqueue"

\* C4: resize run in any reachable state keeps the logical contents (the
\* slots from head up to tail in ring order), and after a growth dequeuing
\* everything gives the enqueue order.
C4_ResizeKeepsContents ==
    (obj = "Queue" /\ ~queue.panicked) =>
        /\ ~resize(queue).panicked
        /\ Contents(resize(queue)) = Contents(queue)
        /\ (TotalGrowths >= 1 /\ Stored = 0) => deq = enq

\* a resize has run in a wrapped state and one in a non-wrapped state, and
\* everything was dequeued afterwards
C4_Witness ==
    /\ obj = "Queue"
    /\ growths.wrapped >= 1 /\ growths.linear >= 1
    /\ Len(enq) >= 3 /\ Stored = 0

\* C5: empty() is true exactly when as many values were dequeued as were
\* enqueued; after an enqueue tail is never on head.
C5_Empty ==
    obj = "Queue" =>
        /\ empty(queue) <=> (Stored = 0)
        /\ (last.op = "empty" =>
                last.ret = Some(IF Stored = 0 THEN 1 ELSE 0))
        /\ (last.op = "enqueue" /\ ~queue.panicked) => ~empty(queue)

\* an enqueue has just filled the buffer up to the sentinel slot, with the
\* indices wrapped
C5_Witness ==
    /\ obj = "Queue" /\ ~queue.panicked
    /\ last.op = "enqueue"
    /\ Stored = queue.cap - 1
    /\ queue.head > queue.tail

\* C6: dequeue on an empty Queue and pop on an empty LinkedList return
\* None and change nothing (head, tail, capacity, buffer; the list), so
\* they can be repeated and the structure is used normally afterwards.
C6_EmptyRemoveIsNoop ==
    [][/\ (obj = "Queue" /\ ~queue.panicked /\ Stored = 0
              /\ last'.op = "dequeue") =>
            (last'.ret = None /\ queue' = queue /\ enq' = enq /\ deq' = deq)
       /\ (obj = "LinkedList" /\ Elems(ll) = <<>> /\ last'.op = "pop") =>
            (last'.ret = None /\ ll' = ll /\ ll' = LinkedList_new)]_vars

\* a queue that was used, wrapped and emptied has answered None
C6_Witness ==
    /\ obj = "Queue" /\ ~queue.panicked
    /\ last.op = "dequeue" /\ last.ret = None
    /\ Len(deq) >= 2 /\ wraps >= 1

\* a list that was used and emptied has answered None
C6_WitnessPop ==
    /\ obj = "LinkedList"
    /\ last.op = "pop" /\ last.ret = None
    /\ ~stackOnly /\ ll = LinkedList_new

\* C7: a Queue is never created with a capacity of 0 or 1, and no
\* operation takes a remainder by a capacity of 0.
C7_SmallCapacityRejected ==
    obj = "Queue" => (cap0 >= 2 /\ queue.cap # 0 /\ ~queue.panicked)

\* C8: a Queue constructed with a capacity of at least 2 never panics: the
\* modulus is not zero, the Vec's length is tail until tail wraps after an
\* allocation and the capacity afterwards, enqueue writes inside the
\* allocation, dequeue reads an initialised slot and resize drains ranges
\* inside the Vec.
C8_NoPanic ==
    (obj = "Queue" /\ cap0 >= 2) =>
        /\ ~queue.panicked
        /\ queue.cap # 0
        /\ Len(queue.list) = (IF wrapped THEN queue.cap ELSE queue.tail)
        /\ queue.tail < queue.cap /\ queue.head < queue.cap
        /\ Len(queue.list) <= queue.cap
        /\ ~DequeueUB(queue)
        /\ ~ResizePanics(queue)

\* a resize has run in a wrapped state and tail has wrapped again in the
\* new buffer
C8_Witness ==
    /\ obj = "Queue" /\ cap0 >= 2
    /\ growths.wrapped >= 1
    /\ wrapped
    /\ Len(deq) >= 1

\* C9: on a list used with push and pop only, every pop returns the most
\* recently pushed value that was not popped yet, and None when there is
\* none.
C9_Lifo ==
    [][(obj = "LinkedList" /\ stackOnly /\ last'.op = "pop") =>
          last'.ret = (IF pushed = <<>> THEN None ELSE Some(Head(pushed)))]_vars

\* after at least three pushes a pop has returned 1 and left 2, 1
C9_Witness ==
    /\ obj = "LinkedList" /\ stackOnly
    /\ last.op = "pop" /\ last.ret = Some(1)
    /\ pushed = <<2, 1>>

Min2(a, b) == IF a <= b THEN a ELSE b

\* C10: insert(data, n) on a list of length L puts data at index
\* min(n, L), makes the length L + 1 and keeps the other elements in
\* order; n > L and any n on an empty list give what append gives.
C10_InsertClamps ==
    [][(obj = "LinkedList" /\ last'.op = "insert") =>
          LET s == Elems(ll)
              L == Len(s)
              k == Min2(last'.n, L)
          IN  /\ Elems(ll') = SubSeq(s, 1, k) \o <<last'.arg>>
                                  \o SubSeq(s, k + 1, L)
              /\ Len(Elems(ll')) = L + 1
              /\ (last'.n > L \/ L = 0) => ll' = append(ll, last'.arg)]_vars

\* an insert with an index beyond the end of a list of two or more
\* elements has put its value last
C10_Witness ==
    /\ obj = "LinkedList"
    /\ last.op = "insert"
    /\ Len(Elems(ll)) >= 3
    /\ last.n > Len(Elems(ll))
    /\ Elems(ll)[Len(Elems(ll))] = last.arg
    /\ Elems(ll)[1] # last.arg

\* C11: a list built from a sequence s and drained by pop or by iteration
\* returns the elements of s in order and ends empty; a step of the
\* iterator returns what pop returns and leaves what pop leaves; built from
\* the empty sequence, the first pop is None.
C11_FromIterDrains ==
    obj = "LinkedList" =>
        /\ next(ll) = pop(ll)
        /\ drainOnly =>
              /\ out \o Elems(ll) = src
              /\ (ll = LinkedList_new => out = src)
              /\ (last.op \in {"pop", "next"} /\ last.ret = None) =>
                    (ll = LinkedList_new /\ out = src)

\* a list built from a sequence of three or more values, not all equal,
\* has been drained to the end by pops and iterator steps
C11_Witness ==
    /\ obj = "LinkedList" /\ drainOnly
    /\ Len(src) >= 3 /\ src[1] # src[Len(src)]
    /\ out = src
    /\ ll = LinkedList_new
    /\ last.op = "next" /\ last.ret = None

\* the elements of the wrapped list and the position of an element in it
PQElems == Elems(ll)
PosOf(e, seq) == CHOOSE i \in 1..Len(seq) : seq[i] = e

\* a == b of PartialEq: equal keys, a nan key equals nothing
eq(a, b) == ~a.nan /\ ~b.nan /\ a.key = b.key

Sorted(seq) == \A i \in 1..(Len(seq) - 1) : ge(seq[i + 1], seq[i])

\* C12: with elements of a totally ordered type, the wrapped list is in
\* non-decreasing order from the head on in every reachable state.
C12_ListSorted ==
    (obj = "PriorityQueue" /\ elemType = "total") => Sorted(PQElems)

\* an insert has put a smaller key in front of larger ones after some pops
C12_Witness ==
    /\ obj = "PriorityQueue" /\ elemType = "total"
    /\ last.op = "insert"
    /\ Len(PQElems) >= 3
    /\ PQElems[1] = last.arg
    /\ PQElems[1].key < PQElems[Len(PQElems)].key
    /\ Cardinality(held) < nextId

\* what C13 says of a pop: it returns the smallest element held (None when
\* nothing is held), no element is lost or duplicated, and pops that
\* follow each other return a non-decreasing sequence
PopsAscending ==
    /\ (last'.op = "pop") =>
          /\ Len(PQElems) = Cardinality(held)
          /\ {PQElems[i] : i \in 1..Len(PQElems)} = held
          /\ IF held = {}
             THEN last'.ret = None
             ELSE /\ last'.ret # None
                  /\ last'.ret[1] \in held
                  /\ \A e \in held : ge(e, last'.ret[1])
                  /\ held' = held \ {last'.ret[1]}
    /\ (last.op = "pop" /\ last.ret # None /\ last'.op = "pop"
            /\ last'.ret # None) => ge(last'.ret[1], last.ret[1])

\* C13 as stated, for every element type: every pop returns the smallest
\* element in the queue, and the pops after the inserts return the inserted
\* values as a non-decreasing permutation, then None.
C13_PopsAscendingAnyType ==
    [][obj = "PriorityQueue" => PopsAscending]_vars

\* C13 amended: the same for elements of a totally ordered type.
C13_PopsAscending ==
    [][(obj = "PriorityQueue" /\ elemType = "total") => PopsAscending]_vars

\* three or more values were inserted and all popped, and the pop after
\* the last one answered None
C13_Witness ==
    /\ obj = "PriorityQueue" /\ elemType = "total"
    /\ nextId >= 3
    /\ held = {}
    /\ last.op = "pop" /\ last.ret = None

\* what C14 says: an insert puts the element behind every element that
\* compares equal to it, and a pop returns, among the elements equal to the
\* one it returns, the one inserted first
TiesInInsertionOrder ==
    /\ (last'.op = "insert") =>
          LET after == Elems(ll')
              p == PosOf(last'.arg, after)
          IN  \A i \in 1..Len(after) :
                  (i # p /\ eq(after[i], last'.arg)) => i < p
    /\ (last'.op = "pop" /\ last'.ret # None) =>
          \A e \in held : eq(e, last'.ret[1]) => last'.ret[1].id <= e.id

\* C14 as stated, for every element type.
C14_StableTiesAnyType ==
    [][obj = "PriorityQueue" => TiesInInsertionOrder]_vars

\* C14 amended: the same for elements of a totally ordered type.
C14_StableTies ==
    [][(obj = "PriorityQueue" /\ elemType = "total") =>
            TiesInInsertionOrder]_vars

\* of three elements of equal key, with a larger key behind them, the one
\* inserted first was popped and the other two follow in insertion order
C14_Witness ==
    /\ obj = "PriorityQueue" /\ elemType = "total"
    /\ last.op = "pop" /\ last.ret # None
    /\ Len(PQElems) >= 3
    /\ eq(PQElems[1], last.ret[1]) /\ eq(PQElems[2], last.ret[1])
    /\ last.ret[1].id < PQElems[1].id /\ PQElems[1].id < PQElems[2].id
    /\ PQElems[3].key > PQElems[2].key
    /\ PQElems[3].id < PQElems[2].id

\* the first position of seq whose element e makes data >= e false, or the
\* position behind the end
RECURSIVE FirstNotGe(_, _, _)
FirstNotGe(data, seq, i) ==
    IF i > Len(seq) THEN i
    ELSE IF ~ge(data, seq[i]) THEN i
    ELSE FirstNotGe(data, seq, i + 1)

\* C19: with a partially ordered element type, insert returns and puts the
\* element immediately before the first element e for which data >= e is
\* false (incomparable counts as false), or at the end; the other elements
\* keep their order and exactly one element is added.
C19_PartialOrderInsert ==
    [][(obj = "PriorityQueue" /\ last'.op = "insert") =>
          LET before == PQElems
              data == last'.arg
              p == FirstNotGe(data, before, 1)
          IN  /\ Elems(ll') = SubSeq(before, 1, p - 1) \o <<data>>
                                  \o SubSeq(before, p, Len(before))
              /\ Len(Elems(ll')) = Len(before) + 1]_vars

\* a number was inserted immediately before a nan element that it is
\* incomparable with, in front of a smaller number
C19_Witness ==
    /\ obj = "PriorityQueue" /\ elemType = "partial"
    /\ last.op = "insert" /\ ~last.arg.nan
    /\ Len(PQElems) >= 4
    /\ \E i \in 2..(Len(PQElems) - 2) :
          /\ PQElems[i] = last.arg
          /\ PQElems[i + 1].nan
          /\ ~PQElems[i + 2].nan
          /\ PQElems[i + 2].key < last.arg.key

\* C15: peek leaves the list as it is; it returns the head value, which is
\* what the next pop returns and what a repeated peek returns, and None on
\* an empty list.
C15_PeekIsPure ==
    [][obj = "LinkedList" =>
          /\ (last'.op = "peek") =>
                /\ ll' = ll
                /\ last'.ret = (IF Elems(ll) = <<>> THEN None
                                ELSE Some(Elems(ll)[1]))
                /\ last'.ret = pop(ll).ret
          /\ (last.op = "peek" /\ last'.op \in {"peek", "pop"}) =>
                last'.ret = last.ret]_vars

\* peek has returned the head of a list whose second element differs
C15_Witness ==
    /\ obj = "LinkedList"
    /\ last.op = "peek" /\ last.ret # None
    /\ Len(Elems(ll)) >= 2
    /\ last.ret = Some(Elems(ll)[1])
    /\ Elems(ll)[2] # Elems(ll)[1]

\* C16: resize run in any reachable state doubles the capacity, sets head
\* to 0 and sets tail to the number of elements stored (0 when empty).
C16_ResizeResult ==
    (obj = "Queue" /\ ~queue.panicked) =>
        LET r == resize(queue)
        IN  /\ r.cap = 2 * queue.cap
            /\ r.head = 0
            /\ r.tail = Stored
            /\ r.tail = Len(r.list)
            /\ (Stored = 0 => r.tail = 0)

\* enqueue has run resize in a wrapped state, and the queue is wrapped
\* again with two or more elements
C16_Witness ==
    /\ obj = "Queue" /\ ~queue.panicked
    /\ growths.wrapped >= 1
    /\ queue.head > queue.tail
    /\ Stored >= 2

\* C17: in every reachable state of a Queue of capacity C >= 2, head and
\* tail are in 0..C-1, also right after a growth.
C17_IndicesInRange ==
    (obj = "Queue" /\ queue.cap >= 2) =>
        /\ queue.head \in 0..(queue.cap - 1)
        /\ queue.tail \in 0..(queue.cap - 1)
        /\ ~queue.panicked =>
              LET r == resize(queue)
              IN  r.head \in 0..(r.cap - 1) /\ r.tail \in 0..(r.cap - 1)

\* after two growths tail is on the last slot and head has moved
C17_Witness ==
    /\ obj = "Queue" /\ queue.cap >= 2
    /\ TotalGrowths >= 2
    /\ queue.tail = queue.cap - 1
    /\ queue.head >= 1

\* the slots of list other than slot i are the same in list2
SameExcept(list, list2, i) ==
    \A j \in 1..Len(list) : j # i + 1 => list2[j] = list[j]

\* C18: an enqueue that does not grow the buffer changes tail to
\* (tail + 1) mod C and the slot at the old tail, which holds the value,
\* and nothing else; a dequeue on a non-empty queue changes head to
\* (head + 1) mod C and the vacated slot, and nothing else; the capacity
\* never decreases.
C18_Frame ==
    [][obj = "Queue" =>
          /\ (Len(enq') = Len(enq) + 1 /\ queue'.cap = queue.cap) =>
                /\ queue'.head = queue.head
                /\ queue'.tail = (queue.tail + 1) % queue.cap
                /\ Len(queue'.list) = Max2(Len(queue.list), queue.tail + 1)
                /\ queue'.list[queue.tail + 1] = last'.arg
                /\ SameExcept(queue.list, queue'.list, queue.tail)
          /\ (Len(deq') = Len(deq) + 1) =>
                /\ queue'.tail = queue.tail
                /\ queue'.cap = queue.cap
                /\ queue'.head = (queue.head + 1) % queue.cap
                /\ Len(queue'.list) = Len(queue.list)
                /\ last'.ret = Some(queue.list[queue.head + 1])
                /\ SameExcept(queue.list, queue'.list, queue.head)
          /\ queue'.cap >= queue.cap]_vars

\* a dequeue has taken head round the end of a buffer that never grew
C18_Witness ==
    /\ obj = "Queue" /\ cap0 >= 2
    /\ last.op = "dequeue" /\ last.ret # None
    /\ queue.head = 0
    /\ wraps >= 1
    /\ queue.cap = cap0
    /\ Stored >= 1

\* slot i of the buffer is one of the slots from head up to tail
InLive(q, i) ==
    IF q.head <= q.tail
    THEN q.head <= i /\ i < q.tail
    ELSE i >= q.head \/ i < q.tail

\* the physical slots outside the live range
DeadSlots(q) == {i \in 0..(Len(q.list) - 1) : ~InLive(q, i)}

\* C20: the slot a dequeue vacated holds the zero value, and so does every
\* physical slot outside the range from head up to tail, in every
\* reachable state.
C20_DeadSlotsCleared ==
    (obj = "Queue" /\ ~queue.panicked) =>
        /\ \A i \in DeadSlots(queue) : queue.list[i + 1] = Zeroed
        /\ (last.op = "dequeue" /\ last.ret # None) =>
              LET vacated == (queue.head + queue.cap - 1) % queue.cap
              IN  /\ vacated < Len(queue.list)
                  /\ queue.list[vacated + 1] = Zeroed

\* after a growth and a wrap-around a dequeue has left two or more cleared
\* slots beside live ones
C20_Witness ==
    /\ obj = "Queue" /\ ~queue.panicked
    /\ TotalGrowths >= 1 /\ wrapped
    /\ last.op = "dequeue" /\ last.ret # None
    /\ Cardinality(DeadSlots(queue)) >= 2
    /\ Stored >= 1

\* C21: append(x) makes x the last element and leaves the others as they
\* are (x is the only element of an empty list); hence a new list on which
\* only push and append were called holds the pushed values in reverse push
\* order followed by the appended values in append order, which is the
\* order draining yields them in.
C21_AppendIsLast ==
    [][obj = "LinkedList" =>
          /\ (last'.op = "append") =>
                /\ Elems(ll') = Append(Elems(ll), last'.arg)
                /\ (ll = LinkedList_new =>
                        ll' = <<last'.arg, LinkedList_new>>)
          /\ buildOnly' => Elems(ll') = pushed' \o appended'
          /\ (last'.op \in {"pop", "next"} /\ ll # LinkedList_new) =>
                /\ last'.ret = Some(Head(Elems(ll)))
                /\ Elems(ll') = Tail(Elems(ll))]_vars

\* pushes and appends were made, two or more of each, the last call being
\* an append
C21_Witness ==
    /\ obj = "LinkedList" /\ buildOnly
    /\ Len(pushed) >= 2 /\ Len(appended) >= 2
    /\ pushed[1] # pushed[2]
    /\ appended[1] # appended[2]
    /\ last.op = "append"

RECURSIVE Pow2(_)
Pow2(k) == IF k <= 0 THEN 1 ELSE 2 * Pow2(k - 1)

\* C22: the capacity of a Queue constructed with capacity C0 >= 2 never
\* decreases and is C0 * 2^k after k growth events; a capacity C above C0
\* means the queue has held C/2 elements or more before.
C22_CapacityHistory ==
    [][(obj = "Queue" /\ cap0 >= 2) =>
          /\ queue'.cap >= queue.cap
          /\ queue'.cap = cap0' * Pow2(growths'.linear + growths'.wrapped)
          /\ (queue'.cap > cap0') => 2 * maxStored' >= queue'.cap]_vars

\* a queue constructed with capacity 2 or more has grown twice and given
\* elements back since
C22_Witness ==
    /\ obj = "Queue" /\ cap0 >= 2
    /\ TotalGrowths >= 2
    /\ queue.cap = 4 * cap0
    /\ 2 * maxStored = queue.cap
    /\ Stored < maxStored
====
